---- MODULE Spec2Model ----
(***************************************************************************)
(* A model of efm-langserver's diagnostic pipeline (langserver/handler.go): *)
(* the document store, the unbuffered request channel between the request  *)
(* handlers and the linter goroutine, lint() with its path filter, and the *)
(* URI <-> path conversion.                                                *)
(*                                                                         *)
(* Strings the code inspects byte by byte (URIs, paths) are sequences of   *)
(* one-character strings; strings it only passes along (document text,     *)
(* language ids, commands, messages) are TLA+ strings.                     *)
(***************************************************************************)
EXTENDS Integers, Sequences, FiniteSets, TLC

(***************************************************************************)
(* Bounds of the model.                                                    *)
(***************************************************************************)
\* longest path handed to toURI in SpecURI
MaxPathLen == 4
\* handler invocations (didOpen, didChange, didSave, didClose) in one run
MaxCalls == 2
\* lines in the lint command's output in SpecLint
MaxOutLines == 2
\* largest configured lint-offset in SpecLint
MaxOffset == 1

(***************************************************************************)
(* Characters.                                                             *)
(***************************************************************************)
LowerLetters == {"a", "b", "c", "d", "e", "f", "h", "i", "l", "n", "p", "s", "t", "w", "x"}
UpperLetters == {"A", "C", "F", "W"}
Digits == {"0", "1", "2", "3", "5"}

\* unicode.IsLetter on one byte of the modelled alphabet
IsLetter(c) == c \in LowerLetters \cup UpperLetters

\* strings.ToLower, one character
LowerChar(c) ==
    CASE c = "A" -> "a"
      [] c = "C" -> "c"
      [] c = "F" -> "f"
      [] c = "W" -> "w"
      [] OTHER -> c

\* strings.ToLower
ToLower(s) == [i \in 1..Len(s) |-> LowerChar(s[i])]

\* runtime.GOOS values the code distinguishes
Platforms == {"linux", "windows"}

\* filepath.ToSlash: replaces the platform separator by "/"; the separator is
\* already "/" everywhere but on Windows
ToSlash(os, s) ==
    IF os = "windows" THEN [i \in 1..Len(s) |-> IF s[i] = "\\" THEN "/" ELSE s[i]]
    ELSE s

\* strings.HasPrefix
HasPrefix(s, p) == Len(s) >= Len(p) /\ SubSeq(s, 1, Len(p)) = p

\* strings.Index for a one-character needle, 0 when absent
RECURSIVE IndexFrom(_, _, _)
IndexFrom(s, c, i) ==
    IF i > Len(s) THEN 0
    ELSE IF s[i] = c THEN i
    ELSE IndexFrom(s, c, i + 1)

IndexOf(s, c) == IndexFrom(s, c, 1)

\* strings.LastIndex for a one-character needle, 0 when absent
RECURSIVE LastIndexFrom(_, _, _)
LastIndexFrom(s, c, i) ==
    IF i < 1 THEN 0
    ELSE IF s[i] = c THEN i
    ELSE LastIndexFrom(s, c, i - 1)

LastIndexOf(s, c) == LastIndexFrom(s, c, Len(s))

(***************************************************************************)
(* net/url as fromURI and toURI use it: URL.String with its path escaping, *)
(* and url.ParseRequestURI with its unescaping.                            *)
(***************************************************************************)
\* url.shouldEscape(c, encodePath): letters, digits, - _ . ~ and the
\* reserved characters other than "?" stay; everything else is escaped
ShouldEscape(c) ==
    ~ (IsLetter(c) \/ c \in Digits \/ c \in {"-", "_", ".", "~", "/", ":"})

\* the two upper-case hex digits of the character's byte
HexOf(c) ==
    CASE c = " " -> <<"2", "0">>
      [] c = "#" -> <<"2", "3">>
      [] c = "%" -> <<"2", "5">>
      [] c = "?" -> <<"3", "F">>
      [] c = "\\" -> <<"5", "C">>
      [] OTHER -> <<"0", "0">>

EscapedChars == {" ", "#", "%", "?", "\\"}

IsHex(c) == c \in Digits \cup {"A", "C", "F", "a", "b", "c", "d", "e", "f"}

\* url.escape(s, encodePath)
RECURSIVE Escape(_)
Escape(s) ==
    IF s = <<>> THEN <<>>
    ELSE (IF ShouldEscape(Head(s)) THEN <<"%">> \o HexOf(Head(s)) ELSE <<Head(s)>>)
         \o Escape(Tail(s))

\* the byte a %XY triple stands for; a byte outside the modelled alphabet
\* is kept as the one token "?byte"
Unhex(a, b) ==
    IF \E c \in EscapedChars : HexOf(c) = <<a, b>>
    THEN CHOOSE c \in EscapedChars : HexOf(c) = <<a, b>>
    ELSE "?byte"

\* url.unescape(s, encodePath): [err, s]
RECURSIVE Unescape(_)
Unescape(s) ==
    IF s = <<>> THEN [err |-> FALSE, s |-> <<>>]
    ELSE IF Head(s) = "%" THEN
        IF Len(s) < 3 \/ ~IsHex(s[2]) \/ ~IsHex(s[3])
        THEN [err |-> TRUE, s |-> <<>>]
        ELSE LET r == Unescape(SubSeq(s, 4, Len(s)))
             IN  [err |-> r.err, s |-> <<Unhex(s[2], s[3])>> \o r.s]
    ELSE LET r == Unescape(Tail(s))
         IN  [err |-> r.err, s |-> <<Head(s)>> \o r.s]

\* url.URL.String for a URL with only Scheme, Host and Path set
URLString(u) ==
    LET scheme == IF u.Scheme # <<>> THEN u.Scheme \o <<":">> ELSE <<>>
        slashes == IF (u.Scheme # <<>> \/ u.Host # <<>>)
                      /\ (u.Host # <<>> \/ u.Path # <<>>)
                   THEN <<"/", "/">> ELSE <<>>
        path == Escape(u.Path)
        sep == IF path # <<>> /\ path[1] # "/" /\ u.Host # <<>> THEN <<"/">> ELSE <<>>
    IN  scheme \o slashes \o u.Host \o sep \o path

\* url.getScheme: [err, scheme, rest]
RECURSIVE GetSchemeAt(_, _)
GetSchemeAt(s, i) ==
    IF i > Len(s) THEN [err |-> FALSE, scheme |-> <<>>, rest |-> s]
    ELSE IF IsLetter(s[i]) THEN GetSchemeAt(s, i + 1)
    ELSE IF s[i] \in Digits \cup {"+", "-", "."} THEN
        IF i = 1 THEN [err |-> FALSE, scheme |-> <<>>, rest |-> s]
        ELSE GetSchemeAt(s, i + 1)
    ELSE IF s[i] = ":" THEN
        IF i = 1 THEN [err |-> TRUE, scheme |-> <<>>, rest |-> <<>>]
        ELSE [err |-> FALSE, scheme |-> SubSeq(s, 1, i - 1),
              rest |-> SubSeq(s, i + 1, Len(s))]
    ELSE [err |-> FALSE, scheme |-> <<>>, rest |-> s]

\* url.validOptionalPort: "" or ":" followed by digits only
ValidOptionalPort(p) ==
    p = <<>> \/ (p[1] = ":" /\ \A i \in 2..Len(p) : p[i] \in Digits)

\* url.parseHost (no IPv6 literal in the modelled alphabet): [err, host]
ParseHost(h) ==
    LET i == LastIndexOf(h, ":")
        u == Unescape(h)
    IN  IF i # 0 /\ ~ValidOptionalPort(SubSeq(h, i, Len(h)))
        THEN [err |-> TRUE, host |-> <<>>]
        ELSE [err |-> u.err, host |-> u.s]

\* url.ParseRequestURI: [err, Scheme, Host, Path]
ParseRequestURI(raw) ==
    LET bad == [err |-> TRUE, Scheme |-> <<>>, Host |-> <<>>, Path |-> <<>>]
        g == GetSchemeAt(raw, 1)
        scheme == ToLower(g.scheme)
        q == IndexOf(g.rest, "?")
        rest == IF q = 0 THEN g.rest ELSE SubSeq(g.rest, 1, q - 1)
    IN  IF raw = <<>> THEN bad
        ELSE IF raw = <<"*">>
        THEN [err |-> FALSE, Scheme |-> <<>>, Host |-> <<>>, Path |-> <<"*">>]
        ELSE IF g.err THEN bad
        ELSE IF ~HasPrefix(rest, <<"/">>) THEN
            \* an opaque URL (scheme:opaque) has no path; without a scheme it
            \* is no request URI
            IF scheme # <<>>
            THEN [err |-> FALSE, Scheme |-> scheme, Host |-> <<>>, Path |-> <<>>]
            ELSE bad
        ELSE IF scheme # <<>> /\ HasPrefix(rest, <<"/", "/">>) THEN
            LET after == SubSeq(rest, 3, Len(rest))
                i == IndexOf(after, "/")
                authority == IF i = 0 THEN after ELSE SubSeq(after, 1, i - 1)
                tail == IF i = 0 THEN <<>> ELSE SubSeq(after, i, Len(after))
                h == ParseHost(authority)
                p == Unescape(tail)
            IN  IF h.err \/ p.err THEN bad
                ELSE [err |-> FALSE, Scheme |-> scheme, Host |-> h.host, Path |-> p.s]
        ELSE
            LET p == Unescape(rest)
            IN  IF p.err THEN bad
                ELSE [err |-> FALSE, Scheme |-> scheme, Host |-> <<>>, Path |-> p.s]

(***************************************************************************)
(* handler.go: the Path/URI normalizer.                                    *)
(***************************************************************************)
\* the length below which a string is no drive path
MinDriveLen == 4

isWindowsDrivePath(path) ==
    IF Len(path) < MinDriveLen THEN FALSE
    ELSE IsLetter(path[1]) /\ path[2] = ":"

isWindowsDriveURI(uri) ==
    IF Len(uri) < MinDriveLen THEN FALSE
    ELSE uri[1] = "/" /\ IsLetter(uri[2]) /\ uri[3] = ":"

FileScheme == <<"f", "i", "l", "e">>

\* lines 70-79 of fromURI, on what url.ParseRequestURI returned
fromParsedURI(u) ==
    IF u.err THEN [err |-> TRUE, path |-> <<>>]
    ELSE IF u.Scheme # FileScheme THEN [err |-> TRUE, path |-> <<>>]
    ELSE IF isWindowsDriveURI(u.Path)
    THEN [err |-> FALSE, path |-> Tail(u.Path)]
    ELSE [err |-> FALSE, path |-> u.Path]

\* fromURI: [err, path]
fromURI(uri) == fromParsedURI(ParseRequestURI(uri))

\* toURI: the url.URL value
toURI(os, path) ==
    [Scheme |-> FileScheme, Host |-> <<>>,
     Path |-> ToSlash(os, IF isWindowsDrivePath(path) THEN <<"/">> \o path ELSE path)]

(***************************************************************************)
(* path/filepath as lint uses it: filepath.Abs, which ends in              *)
(* filepath.Clean. Paths are cleaned lexically, component by component.    *)
(***************************************************************************)
\* the separators filepath accepts on the platform
IsSep(os, c) == c = "/" \/ (os = "windows" /\ c = "\\")

\* the platform's own separator, which Clean writes
Separator(os) == IF os = "windows" THEN "\\" ELSE "/"

\* the components of s between separators, empty ones included
RECURSIVE SplitPath(_, _, _)
SplitPath(os, s, cur) ==
    IF s = <<>> THEN <<cur>>
    ELSE IF IsSep(os, Head(s)) THEN <<cur>> \o SplitPath(os, Tail(s), <<>>)
    ELSE SplitPath(os, Tail(s), Append(cur, Head(s)))

\* Clean's pass over the components: "" and "." are dropped, ".." removes the
\* component before it, stays when there is none to remove in a relative
\* path, and is dropped at the root
RECURSIVE CleanComps(_, _, _)
CleanComps(comps, rooted, out) ==
    IF comps = <<>> THEN out
    ELSE LET c == Head(comps) IN
        IF c = <<>> \/ c = <<".">> THEN CleanComps(Tail(comps), rooted, out)
        ELSE IF c = <<".", ".">> THEN
            IF out # <<>> /\ out[Len(out)] # <<".", ".">>
            THEN CleanComps(Tail(comps), rooted, SubSeq(out, 1, Len(out) - 1))
            ELSE IF rooted THEN CleanComps(Tail(comps), rooted, out)
            ELSE CleanComps(Tail(comps), rooted, Append(out, c))
        ELSE CleanComps(Tail(comps), rooted, Append(out, c))

RECURSIVE JoinComps(_, _)
JoinComps(comps, sep) ==
    IF comps = <<>> THEN <<>>
    ELSE IF Len(comps) = 1 THEN comps[1]
    ELSE comps[1] \o <<sep>> \o JoinComps(Tail(comps), sep)

\* filepath.VolumeName's length: a drive letter and a colon on Windows
VolumeLen(os, p) ==
    IF os = "windows" /\ Len(p) >= 2 /\ IsLetter(p[1]) /\ p[2] = ":" THEN 2 ELSE 0

\* filepath.Clean
Clean(os, p) ==
    LET v == VolumeLen(os, p)
        vol == SubSeq(p, 1, v)
        rest == SubSeq(p, v + 1, Len(p))
        rooted == rest # <<>> /\ IsSep(os, rest[1])
        body == JoinComps(CleanComps(SplitPath(os, rest, <<>>), rooted, <<>>),
                          Separator(os))
    IN  IF rooted THEN vol \o <<Separator(os)>> \o body
        ELSE IF body = <<>> THEN vol \o <<".">>
        ELSE vol \o body

\* filepath.IsAbs
IsAbs(os, p) ==
    IF os = "windows"
    THEN VolumeLen(os, p) = 2 /\ Len(p) >= 3 /\ IsSep(os, p[3])
    ELSE p # <<>> /\ p[1] = "/"

\* the working directory of the server process (os.Getwd), in the platform's
\* own form
Cwd(os) == IF os = "windows" THEN <<"C", ":", "\\", "w">> ELSE <<"/", "w">>

\* filepath.Abs: an absolute path is cleaned; a relative one is joined to the
\* working directory; on Windows a path rooted without a drive takes the
\* working directory's drive, and a drive-relative one ("C:a") is taken
\* relative to the working directory
Abs(os, p) ==
    IF IsAbs(os, p) THEN Clean(os, p)
    ELSE IF os = "windows" /\ p # <<>> /\ IsSep(os, p[1])
    THEN Clean(os, SubSeq(Cwd(os), 1, 2) \o p)
    ELSE IF os = "windows" /\ VolumeLen(os, p) = 2
    THEN Clean(os, Cwd(os) \o <<"\\">> \o SubSeq(p, 3, Len(p)))
    ELSE Clean(os, Cwd(os) \o <<Separator(os)>> \o p)

\* lines 121-123 and 167-169 of lint: strings.ToLower when GOOS is windows
LowerOnWindows(os, s) == IF os = "windows" THEN ToLower(s) ELSE s

\* lines 162-169 of lint: the match's file made absolute, slash-normalised
\* and, on Windows, lower-cased
MatchPath(os, f) == LowerOnWindows(os, ToSlash(os, Abs(os, f)))

\* lines 115-123 of lint: the document's path from its URI: [err, fname]
DocPathOf(os, r) ==
    [err |-> r.err, fname |-> LowerOnWindows(os, ToSlash(os, r.path))]

DocPath(os, uri) == DocPathOf(os, fromURI(uri))

(***************************************************************************)
(* github.com/haya14busa/errorformat, a black box behind two calls:        *)
(* NewErrorformat compiles the configured pattern strings, Efm.Match       *)
(* matches one output line against one compiled pattern.                   *)
(*                                                                         *)
(* An output line is a record of what its text holds:                      *)
(*   kind "flm"   the text  <f>:<l>:<m>                                    *)
(*   kind "flcm"  the text  <f>:<l>:<c>:<m>                                *)
(*   kind "text"  any other text (no file:line prefix), "" included        *)
(* with f a path, l and c numbers and m a message that holds no colon.     *)
(* A message is [pre, text]: the numbers that precede the text within the  *)
(* message, then the text ("%m" matching "4:bad" is [<<4>>, "bad"]).        *)
(***************************************************************************)
PatFLM == "%f:%l:%m"
PatFLCM == "%f:%l:%c:%m"
\* a pattern string errorformat refuses to compile (an unknown conversion)
PatMalformed == "%f:%l:%z"

KnownPatterns == {PatFLM, PatFLCM}

\* errorformat.NewErrorformat: [err, Efms]; a nil or empty list compiles to
\* no patterns
NewErrorformat(formats) ==
    IF \E i \in 1..Len(formats) : formats[i] \notin KnownPatterns
    THEN [err |-> TRUE, Efms |-> <<>>]
    ELSE [err |-> FALSE, Efms |-> formats]

NoMatch == [ok |-> FALSE]

\* Efm.Match: NoMatch, or the match with its F, L, C (0: the pattern has no
\* column) and M
Match(ef, line) ==
    IF ef = PatFLM /\ line.kind = "flm"
    THEN [ok |-> TRUE, F |-> line.f, L |-> line.l, C |-> 0,
          M |-> [pre |-> <<>>, text |-> line.m]]
    ELSE IF ef = PatFLM /\ line.kind = "flcm"
    THEN [ok |-> TRUE, F |-> line.f, L |-> line.l, C |-> 0,
          M |-> [pre |-> <<line.c>>, text |-> line.m]]
    ELSE IF ef = PatFLCM /\ line.kind = "flcm"
    THEN [ok |-> TRUE, F |-> line.f, L |-> line.l, C |-> line.c,
          M |-> [pre |-> <<>>, text |-> line.m]]
    ELSE NoMatch

(***************************************************************************)
(* handler.go: Config, and lint from the command's return on.              *)
(***************************************************************************)
\* Config{}: the zero value
EmptyConfig ==
    [LintErrorFormats |-> <<>>, LintStdin |-> FALSE, LintOffset |-> 0,
     LintCommand |-> ""]

StdinNames == {<<"s", "t", "d", "i", "n">>, <<"-">>}

\* lines 154-158: the file the path filter sees
MatchFile(os, config, fname, m) ==
    IF config.LintStdin /\ m.F \in StdinNames THEN fname ELSE ToSlash(os, m.F)

\* the column as the matcher reports it
MatchColumnRaw(m) == m.C

\* lines 159-161: the column, 1 when the match has none
MatchColumn(m) == IF m.C = 0 THEN 1 ELSE m.C

\* no path filter
SurvivesAny(os, config, fname, m) == TRUE

\* lines 162-172: whether the match is kept
Survives(os, config, fname, m) ==
    MatchPath(os, MatchFile(os, config, fname, m)) = fname

\* lines 173-180
MakeDiagnostic(config, m) ==
    LET pos == [Line |-> m.L - 1 - config.LintOffset,
                Character |-> MatchColumn(m) - 1]
    IN  [Range |-> [Start |-> pos, End |-> pos], Message |-> m.M, Severity |-> 1]

\* lines 149-181, the inner loop over the compiled patterns for one line:
\* the hits, in pattern order. A hit is the diagnostic with where it comes
\* from: the match, the line's index and the pattern's index
RECURSIVE LineHits(_, _, _, _, _, _, _)
LineHits(os, config, fname, efms, line, i, j) ==
    IF j > Len(efms) THEN <<>>
    ELSE LET m == Match(efms[j], line)
             rest == LineHits(os, config, fname, efms, line, i, j + 1)
         IN  IF ~m.ok THEN rest
             ELSE IF ~Survives(os, config, fname, m) THEN rest
             ELSE <<[d |-> MakeDiagnostic(config, m), m |-> m, i |-> i, j |-> j]>>
                  \o rest

\* lines 148-182, the outer loop over the lines of the output
RECURSIVE OutputHits(_, _, _, _, _, _)
OutputHits(os, config, fname, efms, out, i) ==
    IF i > Len(out) THEN <<>>
    ELSE LineHits(os, config, fname, efms, out[i], i, 1)
         \o OutputHits(os, config, fname, efms, out, i + 1)

\* what lint returns: a nil slice (the early returns) or the diagnostics,
\* with the hits they come from and the return statement taken:
\*   "document not found" (line 112), "uri" (118), "errorformat" (130),
\*   "succeeded" (146), "parsed" (184)
NilReturn(why) == [nil |-> TRUE, diagnostics |-> <<>>, hits |-> <<>>, end |-> why]

NoReturn == [none |-> TRUE]

\* the output parsed whatever the exit status
LintOutputAlways(os, config, fname, efms, res) ==
    [nil |-> FALSE,
     diagnostics |-> [k \in 1..Len(OutputHits(os, config, fname, efms, res.out, 1)) |->
                         OutputHits(os, config, fname, efms, res.out, 1)[k].d],
     hits |-> OutputHits(os, config, fname, efms, res.out, 1),
     end |-> "parsed"]

\* lines 143-184: lint once cmd.CombinedOutput has returned res = [exit, out]
LintOutput(os, config, fname, efms, res) ==
    IF res.exit = 0
    THEN [nil |-> FALSE, diagnostics |-> <<>>, hits |-> <<>>, end |-> "succeeded"]
    ELSE LET hits == OutputHits(os, config, fname, efms, res.out, 1)
         IN  [nil |-> FALSE,
              diagnostics |-> [k \in 1..Len(hits) |-> hits[k].d],
              hits |-> hits,
              end |-> "parsed"]

(***************************************************************************)
(* The server: NewHandler's langHandler, the handlers and the linter       *)
(* goroutine.                                                              *)
(***************************************************************************)
VARIABLES
    goos,       \* runtime.GOOS
    conn,       \* h.conn is set (not nil)
    files,      \* h.files: URI -> the *File it maps to, 0 when absent
    heap,       \* the File objects: object -> [LanguageId, Text]
    closed,     \* h.request is closed
    buf,        \* h.request's buffer
    sendq,      \* the goroutines blocked in h.request <- uri, oldest first
    hpc,        \* where each handler call stands
    harg,       \* the running call's arguments
    hret,       \* the error each handler's last call returned
    wpc,        \* where the linter goroutine stands
    wuri,       \* linter: uri
    wf,         \* lint: f, the *File found at line 109 (0: none)
    wrun,       \* lint: fname, config, efms and the text given as stdin
    wret,       \* lint's return value
    panicked,   \* a goroutine panicked: the process is gone
    inflight,   \* lint runs begun and not yet published
    enqLog,     \* history: the sends in the order they began: the URI, and
                \* how many requests were waiting to be received then; the
                \* i-th send carries ticket i
    acceptLog,  \* history: the requests the linter received, in order
    pubLog,     \* history: the publishDiagnostics notifications, in order,
                \* each with the request's ticket and how its run ended
    nReturned,  \* history: updateFile/saveFile calls that returned nil
    calls,      \* history: handler invocations so far
    path,       \* SpecURI: the path under conversion
    back,       \* SpecURI: the conversion's result
    lintIn,     \* SpecLint: the inputs of one lint run
    lintOut     \* SpecLint: its result

vars ==
    <<goos, conn, files, heap, closed, buf, sendq, hpc, harg, hret, wpc, wuri,
      wf, wrun, wret, panicked, inflight, enqLog, acceptLog, pubLog, nReturned,
      calls, path, back, lintIn, lintOut>>

\* the variables of SpecURI and SpecLint
pureVars == <<path, back, lintIn, lintOut>>

serverVars ==
    <<goos, conn, files, heap, closed, buf, sendq, hpc, harg, hret, wpc, wuri,
      wf, wrun, wret, panicked, inflight, enqLog, acceptLog, pubLog, nReturned,
      calls>>

\* the request-handling call sites that may run concurrently
Handlers == {"h1", "h2"}

\* file:///w/a
UriA == <<"f", "i", "l", "e", ":", "/", "/", "/", "w", "/", "a">>
\* file:///C:/w/a
UriWinA == <<"f", "i", "l", "e", ":", "/", "/", "/", "C", ":", "/", "w", "/", "a">>
\* http://x/a
UriHttp == <<"h", "t", "t", "p", ":", "/", "/", "x", "/", "a">>

\* the documents the editor talks about: one file of the working directory,
\* named the platform's way, and one that is no file URI
DocURIs(os) == IF os = "windows" THEN {UriWinA, UriHttp} ELSE {UriA, UriHttp}

AllURIs == {UriA, UriWinA, UriHttp}
Texts == {"t1", "t2"}
\* the language ids of the documents, both configured
Langs == {"go", "bad"}

\* the configuration main loads and hands to NewHandler
LoadedConfigs ==
    [l \in {"go", "bad"} |->
        IF l = "go"
        THEN [LintErrorFormats |-> <<PatFLM, PatFLCM>>, LintStdin |-> TRUE,
              LintOffset |-> 0, LintCommand |-> "lint"]
        ELSE [LintErrorFormats |-> <<PatMalformed>>, LintStdin |-> FALSE,
              LintOffset |-> 0, LintCommand |-> "lint"]]

DefaultErrorFormats == <<PatFLM, PatFLCM>>

\* NewHandler, lines 26-30 and 33: the loop assigns the defaults to v, its
\* copy of the map's value, and the map itself is stored as it came
NewHandler(configs) ==
    LET v == [l \in DOMAIN configs |->
                IF configs[l].LintErrorFormats = <<>>
                THEN [configs[l] EXCEPT !.LintErrorFormats = DefaultErrorFormats]
                ELSE configs[l]]
    IN  configs

\* make(chan string, 1)
ChanCapBuffered == 0 + 1

\* make(chan string): the channel's capacity
ChanCap == 0

\* a goroutine that finds the channel full joins the senders' queue at the
\* front
EnqueueFront(q, e) == <<e>> \o q

\* a goroutine that finds the channel full waits behind those already
\* blocked in a send (the runtime's sender queue)
Enqueue(q, e) == Append(q, e)

\* the errors updateFile and saveFile return: nil, or line 209's
NoError == [err |-> "nil"]
DocumentNotFound(uri) == [err |-> "document not found", uri |-> uri]

ObjIds == 1..3
FreeObj == [free |-> TRUE]
NoRun == [none |-> TRUE]

\* lines 139-141: whether the command of run got the document's text on its
\* standard input, and the text it got
RunFed(run) == run # NoRun /\ run.config.LintStdin

RunStdin(run) == IF RunFed(run) THEN run.stdin ELSE ""

\* the garbage collector: an object neither h.files nor lint's f refers to
\* is gone
Collect(hp, fs, f) ==
    [o \in ObjIds |->
        IF o = f \/ (\E u \in AllURIs : fs[u] = o) THEN hp[o] ELSE FreeObj]

NewObj(hp) == CHOOSE o \in ObjIds : hp[o] = FreeObj /\ \A q \in 1..(o - 1) : hp[q] # FreeObj

\* configFor
configFor(configs, fs, hp, uri) ==
    IF fs[uri] = 0 THEN EmptyConfig
    ELSE IF hp[fs[uri]].LanguageId \in DOMAIN configs
    THEN configs[hp[fs[uri]].LanguageId]
    ELSE EmptyConfig

ServerInit ==
    /\ goos \in Platforms
    /\ conn = FALSE
    /\ files = [u \in AllURIs |-> 0]
    /\ heap = [o \in ObjIds |-> FreeObj]
    /\ closed = FALSE
    /\ buf = <<>>
    /\ sendq = <<>>
    /\ hpc = [h \in Handlers |-> "idle"]
    /\ harg = [h \in Handlers |-> <<>>]
    /\ hret = [h \in Handlers |-> NoError]
    /\ wpc = "recv"
    /\ wuri = <<>>
    /\ wf = 0
    /\ wrun = NoRun
    /\ wret = NoReturn
    /\ panicked = FALSE
    /\ inflight = 0
    /\ enqLog = <<>>
    /\ acceptLog = <<>>
    /\ pubLog = <<>>
    /\ nReturned = 0
    /\ calls = 0

Init ==
    /\ ServerInit
    /\ path = <<>>
    /\ back = [none |-> TRUE]
    /\ lintIn = NoRun
    /\ lintOut = NoRun

(***************************************************************************)
(* The handlers. The editor follows the protocol: document notifications   *)
(* come after initialize (which sets h.conn) and before shutdown.          *)
(* Two handler calls may run at once (the transport decides); a call is    *)
(* one step from one access of shared state to the next.                   *)
(***************************************************************************)
MayNotify(h) ==
    /\ ~panicked
    /\ hpc[h] = "idle"
    /\ conn
    /\ ~closed
    /\ calls < MaxCalls

\* handleInitialize: keeps the connection the notifications go out on
handleInitialize(h) ==
    /\ ~panicked
    /\ hpc[h] = "idle"
    /\ ~conn
    /\ conn' = TRUE
    /\ UNCHANGED <<pureVars, goos, files, heap, closed, buf, sendq, hpc, harg, hret, wpc,
                   wuri, wf, wrun, wret, panicked, inflight, enqLog, acceptLog,
                   pubLog, nReturned, calls>>

\* openFile that keeps the entry an open document has
openFileIfAbsent(h, uri, languageId, text) ==
    /\ MayNotify(h)
    /\ LET o == NewObj(Collect(heap, files, wf))
       IN  IF files[uri] # 0 THEN UNCHANGED <<files, heap>>
           ELSE /\ files' = [files EXCEPT ![uri] = o]
                /\ heap' = [Collect(heap, files, wf) EXCEPT
                               ![o] = [LanguageId |-> languageId, Text |-> ""]]
    /\ hpc' = [hpc EXCEPT ![h] = "update"]
    /\ harg' = [harg EXCEPT ![h] = [uri |-> uri, text |-> text]]
    /\ hret' = [hret EXCEPT ![h] = NoError]
    /\ calls' = calls + 1
    /\ UNCHANGED <<pureVars, goos, conn, closed, buf, sendq, wpc, wuri, wf, wrun, wret,
                   panicked, inflight, enqLog, acceptLog, pubLog, nReturned>>

\* openFile, as handleTextDocumentDidOpen calls it (line 20 of the handler);
\* the call to updateFile follows
openFile(h, uri, languageId, text) ==
    /\ MayNotify(h)
    /\ LET o == NewObj(Collect(heap, [files EXCEPT ![uri] = 0], wf))
       IN  /\ files' = [files EXCEPT ![uri] = o]
           /\ heap' = [Collect(heap, [files EXCEPT ![uri] = 0], wf) EXCEPT
                          ![o] = [LanguageId |-> languageId, Text |-> ""]]
    /\ hpc' = [hpc EXCEPT ![h] = "update"]
    /\ harg' = [harg EXCEPT ![h] = [uri |-> uri, text |-> text]]
    /\ hret' = [hret EXCEPT ![h] = NoError]
    /\ calls' = calls + 1
    /\ UNCHANGED <<pureVars, goos, conn, closed, buf, sendq, wpc, wuri, wf, wrun, wret,
                   panicked, inflight, enqLog, acceptLog, pubLog, nReturned>>

\* updateFile without its lookup's check: an absent document is sent on
UpdateFileUnchecked(h, uri, text) ==
    /\ heap' = IF files[uri] = 0 THEN heap
               ELSE [heap EXCEPT ![files[uri]].Text = text]
    /\ hpc' = [hpc EXCEPT ![h] = "send"]
    /\ harg' = [harg EXCEPT ![h] = [uri |-> uri, text |-> text]]
    /\ hret' = [hret EXCEPT ![h] = NoError]

\* updateFile, lines 207-211, for handler h: the lookup, then the error
\* return or the new text and on to the send of line 213
UpdateFileHead(h, uri, text) ==
    IF files[uri] = 0
    THEN /\ hpc' = [hpc EXCEPT ![h] = "idle"]
         /\ hret' = [hret EXCEPT ![h] = DocumentNotFound(uri)]
         /\ harg' = [harg EXCEPT ![h] = <<>>]
         /\ heap' = heap
    ELSE /\ heap' = [heap EXCEPT ![files[uri]].Text = text]
         /\ hpc' = [hpc EXCEPT ![h] = "send"]
         /\ harg' = [harg EXCEPT ![h] = [uri |-> uri, text |-> text]]
         /\ hret' = [hret EXCEPT ![h] = NoError]

\* updateFile as handleTextDocumentDidOpen calls it after openFile (line 21
\* of the handler)
updateFile(h) ==
    /\ ~panicked
    /\ hpc[h] = "update"
    /\ UpdateFileHead(h, harg[h].uri, harg[h].text)
    /\ UNCHANGED <<pureVars, goos, conn, files, closed, buf, sendq, wpc, wuri, wf, wrun,
                   wret, panicked, inflight, enqLog, acceptLog, pubLog, nReturned,
                   calls>>

\* textDocument/didChange: updateFile(uri, text)
didChange(h, uri, text) ==
    /\ MayNotify(h)
    /\ UpdateFileHead(h, uri, text)
    /\ calls' = calls + 1
    /\ UNCHANGED <<pureVars, goos, conn, files, closed, buf, sendq, wpc, wuri, wf, wrun,
                   wret, panicked, inflight, enqLog, acceptLog, pubLog, nReturned>>

\* h.request <- uri (lines 193 and 213) for handler h: on a closed channel
\* it panics; with room in the buffer the value is stored and the call
\* returns nil (lines 194 and 214); otherwise the goroutine blocks
SendRequest(h, uri) ==
    IF closed
    THEN /\ panicked' = TRUE
         /\ UNCHANGED <<buf, sendq, hpc, harg, hret, enqLog, nReturned>>
    ELSE /\ enqLog' = Append(enqLog, [uri |-> uri, ahead |-> Len(buf) + Len(sendq)])
         /\ panicked' = FALSE
         /\ IF Len(buf) < ChanCap
            THEN /\ buf' = Append(buf, [uri |-> uri, ticket |-> Len(enqLog) + 1])
                 /\ hpc' = [hpc EXCEPT ![h] = "idle"]
                 /\ hret' = [hret EXCEPT ![h] = NoError]
                 /\ harg' = [harg EXCEPT ![h] = <<>>]
                 /\ nReturned' = nReturned + 1
                 /\ sendq' = sendq
            ELSE /\ sendq' = Enqueue(sendq, [h |-> h, uri |-> uri,
                                                ticket |-> Len(enqLog) + 1])
                 /\ hpc' = [hpc EXCEPT ![h] = "blocked"]
                 /\ harg' = [harg EXCEPT ![h] = [uri |-> uri, text |-> ""]]
                 /\ hret' = [hret EXCEPT ![h] = NoError]
                 /\ UNCHANGED <<buf, nReturned>>

\* updateFile, line 213
send(h) ==
    /\ ~panicked
    /\ hpc[h] = "send"
    /\ SendRequest(h, harg[h].uri)
    /\ UNCHANGED <<pureVars, goos, conn, files, heap, closed, wpc, wuri, wf, wrun, wret,
                   inflight, acceptLog, pubLog, calls>>

\* textDocument/didSave: saveFile(uri), line 193
saveFile(h, uri) ==
    /\ MayNotify(h)
    /\ SendRequest(h, uri)
    /\ calls' = calls + 1
    /\ UNCHANGED <<pureVars, goos, conn, files, heap, closed, wpc, wuri, wf, wrun, wret,
                   inflight, acceptLog, pubLog>>

\* closeFile
closeFile(h, uri) ==
    /\ MayNotify(h)
    /\ files' = [files EXCEPT ![uri] = 0]
    /\ heap' = Collect(heap, files', wf)
    /\ calls' = calls + 1
    /\ hret' = [hret EXCEPT ![h] = NoError]
    /\ UNCHANGED <<pureVars, goos, conn, closed, buf, sendq, hpc, harg, wpc, wuri, wf,
                   wrun, wret, panicked, inflight, enqLog, acceptLog, pubLog,
                   nReturned>>

\* handleShutdown: closes h.request (a goroutine blocked in a send on it
\* would panic). The editor sends shutdown once, after the notifications it
\* sent before have been handled
handleShutdown(h) ==
    /\ ~panicked
    /\ \A g \in Handlers : hpc[g] = "idle"
    /\ conn
    /\ ~closed
    /\ closed' = TRUE
    /\ panicked' = (sendq # <<>>)
    /\ UNCHANGED <<pureVars, goos, conn, files, heap, buf, sendq, hpc, harg, hret, wpc,
                   wuri, wf, wrun, wret, inflight, enqLog, acceptLog, pubLog,
                   nReturned, calls>>

(***************************************************************************)
(* The external lint command: sh -c (cmd /c) LintCommand. What it prints   *)
(* and how it exits is the tool's; an empty command line prints nothing    *)
(* and exits 0.                                                            *)
(***************************************************************************)
NameA == <<"a">>
NameB == <<"b">>
NameStdin == <<"s", "t", "d", "i", "n">>

\* a:3:4:bad
LineA == [kind |-> "flcm", f |-> NameA, l |-> 3, c |-> 4, m |-> "bad"]
\* stdin:10:unexpected token
LineStdin == [kind |-> "flm", f |-> NameStdin, l |-> 10, c |-> 0, m |-> "unexpected token"]
\* b:1:other file
LineB == [kind |-> "flm", f |-> NameB, l |-> 1, c |-> 0, m |-> "other file"]
\* a line no pattern matches
LineText == [kind |-> "text", f |-> <<>>, l |-> 0, c |-> 0, m |-> "done"]

\* the results of a run the server model draws from
ServerResults ==
    {[exit |-> 0, out |-> <<LineA>>],
     [exit |-> 1, out |-> <<LineStdin, LineB, LineA>>]}

CmdResults(config, results) ==
    IF config.LintCommand = "" THEN {[exit |-> 0, out |-> <<>>]} ELSE results

(***************************************************************************)
(* lint, lines 115-142: from the URI to the started command.               *)
(***************************************************************************)
\* [early, why, fname, config, efms, stdin]: early when lint returns nil
\* before the command (why: at which return); stdin is the text piped to
\* the command ("" when none is)
Prepared(d, config, e, text) ==
    [early |-> d.err \/ e.err,
     why |-> IF d.err THEN "uri" ELSE "errorformat",
     fname |-> d.fname,
     config |-> config,
     efms |-> e.Efms,
     stdin |-> IF config.LintStdin THEN text ELSE ""]

\* lines 125-131: the configuration and its compiled patterns
PrepareWith(d, config, text) ==
    Prepared(d, config, NewErrorformat(config.LintErrorFormats), text)

\* lines 115-123 for the documents of the server, worked out once: the
\* value is DocPath's
ServerDocPaths == [os \in Platforms |-> [u \in AllURIs |-> DocPath(os, u)]]

DocPathOnce(os, uri) ==
    IF uri \in AllURIs THEN ServerDocPaths[os][uri] ELSE DocPath(os, uri)

\* lint without the returns of lines 116-119 and 128-131
LintPrepareUnchecked(os, configs, fs, hp, uri, f) ==
    [PrepareWith(DocPathOnce(os, uri), configFor(configs, fs, hp, uri), hp[f].Text)
        EXCEPT !.early = FALSE]

LintPrepare(os, configs, fs, hp, uri, f) ==
    PrepareWith(DocPathOnce(os, uri), configFor(configs, fs, hp, uri), hp[f].Text)

\* lint as a whole, on a store nobody changes meanwhile
\* lint from line 134 on, r being what LintPrepare found
LintRun(os, r, res) ==
    IF r.early THEN NilReturn(r.why)
    ELSE LintOutput(os, r.config, r.fname, r.efms, res)

lint(os, configs, fs, hp, uri, res) ==
    IF fs[uri] = 0 THEN NilReturn("document not found")
    ELSE LintRun(os, LintPrepare(os, configs, fs, hp, uri, fs[uri]), res)

(***************************************************************************)
(* The linter goroutine.                                                   *)
(***************************************************************************)
HandlerConfigs == NewHandler(LoadedConfigs)

\* each request gets a goroutine of its own: the loop receives whatever it
\* is doing
LinterAnytime == wpc # "exited"

\* the for loop is at its receive, line 94
LinterAtReceive == wpc = "recv"

\* line 94, a value arrives: from the buffer (the oldest blocked sender then
\* stores its value and returns), or straight from the oldest blocked
\* sender, whose updateFile/saveFile returns nil
linter_receive ==
    /\ ~panicked
    /\ LinterAtReceive
    /\ buf # <<>> \/ sendq # <<>>
    /\ wuri' = IF buf # <<>> THEN Head(buf).uri ELSE Head(sendq).uri
    /\ buf' = IF buf = <<>> THEN buf
              ELSE IF sendq = <<>> THEN Tail(buf)
              ELSE Append(Tail(buf), [uri |-> Head(sendq).uri,
                                      ticket |-> Head(sendq).ticket])
    /\ IF sendq # <<>>
       THEN /\ sendq' = Tail(sendq)
            /\ hpc' = [hpc EXCEPT ![Head(sendq).h] = "idle"]
            /\ hret' = [hret EXCEPT ![Head(sendq).h] = NoError]
            /\ harg' = [harg EXCEPT ![Head(sendq).h] = <<>>]
            /\ nReturned' = nReturned + 1
       ELSE UNCHANGED <<sendq, hpc, hret, harg, nReturned>>
    /\ wpc' = "lookup"
    /\ acceptLog' = Append(acceptLog,
                           [uri |-> wuri',
                            ticket |-> IF buf # <<>> THEN Head(buf).ticket
                                       ELSE Head(sendq).ticket])
    /\ inflight' = inflight + 1
    /\ UNCHANGED <<pureVars, goos, conn, files, heap, closed, wf, wrun, wret, panicked,
                   enqLog, pubLog, calls>>

\* the loop without its test of ok: the zero value a closed channel yields
\* is taken for a request
linter_ignores_close ==
    /\ ~panicked
    /\ wpc = "recv"
    /\ buf = <<>>
    /\ sendq = <<>>
    /\ closed
    /\ wpc' = "lookup"
    /\ wuri' = <<>>
    /\ acceptLog' = Append(acceptLog, [uri |-> <<>>, ticket |-> 0])
    /\ inflight' = inflight + 1
    /\ UNCHANGED <<pureVars, goos, conn, files, heap, closed, buf, sendq, hpc, harg, hret,
                   wf, wrun, wret, panicked, enqLog, pubLog, nReturned, calls>>

\* lines 94-97: the channel is closed and empty, the loop ends
linter_exit ==
    /\ ~panicked
    /\ wpc = "recv"
    /\ buf = <<>>
    /\ sendq = <<>>
    /\ closed
    /\ wpc' = "exited"
    /\ UNCHANGED <<pureVars, goos, conn, files, heap, closed, buf, sendq, hpc, harg, hret,
                   wuri, wf, wrun, wret, panicked, inflight, enqLog, acceptLog,
                   pubLog, nReturned, calls>>

\* lint, lines 109-113
lint_lookup ==
    /\ ~panicked
    /\ wpc = "lookup"
    /\ IF files[wuri] = 0
       THEN /\ wret' = NilReturn("document not found")
            /\ wpc' = "notify"
            /\ wf' = 0
       ELSE /\ wf' = files[wuri]
            /\ wpc' = "prepare"
            /\ wret' = wret
    /\ UNCHANGED <<pureVars, goos, conn, files, heap, closed, buf, sendq, hpc, harg, hret,
                   wuri, wrun, panicked, inflight, enqLog, acceptLog, pubLog,
                   nReturned, calls>>

\* lint, lines 115-143: the early returns, or the command is started
lint_prepare ==
    /\ ~panicked
    /\ wpc = "prepare"
    /\ \E r \in {LintPrepare(goos, HandlerConfigs, files, heap, wuri, wf)} :
           IF r.early
           THEN /\ wret' = NilReturn(r.why)
                /\ wpc' = "notify"
                /\ wf' = 0
                /\ heap' = Collect(heap, files, 0)
                /\ wrun' = wrun
           ELSE /\ wrun' = [fname |-> r.fname, config |-> r.config,
                            efms |-> r.efms, stdin |-> r.stdin]
                /\ wpc' = "running"
                /\ UNCHANGED <<wret, wf, heap>>
    /\ UNCHANGED <<pureVars, goos, conn, files, closed, buf, sendq, hpc, harg, hret, wuri,
                   panicked, inflight, enqLog, acceptLog, pubLog, nReturned,
                   calls>>

\* lint, lines 143-184: cmd.CombinedOutput returns, the output is parsed
lint_output ==
    /\ ~panicked
    /\ wpc = "running"
    /\ \E res \in CmdResults(wrun.config, ServerResults) :
          wret' = LintOutput(goos, wrun.config, wrun.fname, wrun.efms, res)
    /\ wpc' = "notify"
    /\ wf' = 0
    /\ heap' = Collect(heap, files, 0)
    /\ wrun' = wrun
    /\ UNCHANGED <<pureVars, goos, conn, files, closed, buf, sendq, hpc, harg, hret, wuri,
                   panicked, inflight, enqLog, acceptLog, pubLog, nReturned,
                   calls>>

\* the loop skips the notification when lint returned nil
linter_notify_unless_nil ==
    /\ ~panicked
    /\ wpc = "notify"
    /\ pubLog' = IF wret.nil THEN pubLog
                 ELSE Append(pubLog, [URI |-> wuri, Diagnostics |-> wret.diagnostics,
                                      nil |-> wret.nil, end |-> wret.end,
                                      ticket |-> acceptLog[Len(acceptLog)].ticket,
                                      fed |-> RunFed(wrun), stdin |-> RunStdin(wrun)])
    /\ inflight' = inflight - 1
    /\ wpc' = "recv"
    /\ wuri' = <<>>
    /\ wret' = NoReturn
    /\ wrun' = NoRun
    /\ UNCHANGED <<pureVars, goos, conn, files, heap, closed, buf, sendq, hpc, harg, hret,
                   wf, panicked, enqLog, acceptLog, nReturned, calls>>

\* the loop returns after the notification of a nil result
linter_notify_return_on_nil ==
    /\ ~panicked
    /\ wpc = "notify"
    /\ pubLog' = Append(pubLog, [URI |-> wuri, Diagnostics |-> wret.diagnostics,
                                 nil |-> wret.nil, end |-> wret.end,
                                 ticket |-> acceptLog[Len(acceptLog)].ticket,
                                 fed |-> RunFed(wrun), stdin |-> RunStdin(wrun)])
    /\ inflight' = inflight - 1
    /\ wpc' = IF wret.nil THEN "exited" ELSE "recv"
    /\ wuri' = <<>>
    /\ wret' = NoReturn
    /\ wrun' = NoRun
    /\ UNCHANGED <<pureVars, goos, conn, files, heap, closed, buf, sendq, hpc, harg, hret,
                   wf, panicked, enqLog, acceptLog, nReturned, calls>>

\* lines 98-104: h.conn.Notify("textDocument/publishDiagnostics", ...) with
\* lint's return value; the loop goes back to its receive
linter_notify ==
    /\ ~panicked
    /\ wpc = "notify"
    /\ pubLog' = Append(pubLog, [URI |-> wuri, Diagnostics |-> wret.diagnostics,
                                 nil |-> wret.nil, end |-> wret.end,
                                 ticket |-> acceptLog[Len(acceptLog)].ticket,
                                 fed |-> RunFed(wrun), stdin |-> RunStdin(wrun)])
    /\ inflight' = inflight - 1
    /\ wpc' = "recv"
    /\ wuri' = <<>>
    /\ wret' = NoReturn
    /\ wrun' = NoRun
    /\ UNCHANGED <<pureVars, goos, conn, files, heap, closed, buf, sendq, hpc, harg, hret,
                   wf, panicked, enqLog, acceptLog, nReturned, calls>>

Next ==
    \/ \E h \in Handlers : handleInitialize(h)
    \/ \E h \in Handlers, u \in DocURIs(goos), l \in Langs, t \in Texts :
          openFile(h, u, l, t)
    \/ \E h \in Handlers, u \in DocURIs(goos), t \in Texts : didChange(h, u, t)
    \/ \E h \in Handlers : updateFile(h)
    \/ \E h \in Handlers, u \in DocURIs(goos) : saveFile(h, u)
    \/ \E h \in Handlers : send(h)
    \/ \E h \in Handlers, u \in DocURIs(goos) : closeFile(h, u)
    \/ \E h \in Handlers : handleShutdown(h)
    \/ linter_receive
    \/ linter_exit
    \/ lint_lookup
    \/ lint_prepare
    \/ lint_output
    \/ linter_notify

Spec == Init /\ [][Next]_vars

(***************************************************************************)
(* SpecSeq: the server as main runs it. jsonrpc2.NewConn gets the handler  *)
(* as it is (no asynchronous wrapper): the connection's read loop calls    *)
(* h.handle for one request and reads the next one when the call has       *)
(* returned, so there is one handler call site.                            *)
(***************************************************************************)
Dispatcher == "h1"

SeqNext ==
    \/ handleInitialize(Dispatcher)
    \/ \E u \in DocURIs(goos), l \in Langs, t \in Texts : openFile(Dispatcher, u, l, t)
    \/ \E u \in DocURIs(goos), t \in Texts : didChange(Dispatcher, u, t)
    \/ updateFile(Dispatcher)
    \/ \E u \in DocURIs(goos) : saveFile(Dispatcher, u)
    \/ send(Dispatcher)
    \/ \E u \in DocURIs(goos) : closeFile(Dispatcher, u)
    \/ handleShutdown(Dispatcher)
    \/ linter_receive
    \/ linter_exit
    \/ lint_lookup
    \/ lint_prepare
    \/ lint_output
    \/ linter_notify

SpecSeq == Init /\ [][SeqNext]_vars

\* SpecSeq with the scheduler's fairness: a goroutine that can take its
\* next step takes it, and the lint command, once started, returns
HandlerRuns == WF_vars(updateFile(Dispatcher) \/ send(Dispatcher))

LinterRuns ==
    WF_vars(linter_receive \/ linter_exit \/ lint_lookup \/ lint_prepare \/ linter_notify)

CommandReturns == WF_vars(lint_output)

\* the goroutines run, the command may hang
SpecSeqLive == SpecSeq /\ HandlerRuns /\ LinterRuns

SpecSeqFair == SpecSeqLive /\ CommandReturns

(***************************************************************************)
(* SpecURI: toURI and fromURI on every absolute path of the alphabet up to *)
(* MaxPathLen. The URI goes from toURI to fromURI as the string            *)
(* url.URL.String writes.                                                  *)
(***************************************************************************)
PathChars == {"/", ":", "\\", " ", "a", "C"}

\* an absolute POSIX-style path
IsPosixAbs(p) == p # <<>> /\ p[1] = "/"

\* an absolute Windows-drive path: a letter, a colon, a separator, the rest
IsDriveAbs(p) ==
    Len(p) >= 3 /\ IsLetter(p[1]) /\ p[2] = ":" /\ p[3] \in {"/", "\\"}

AbsPaths ==
    {p \in UNION {[1..n -> PathChars] : n \in 1..MaxPathLen} :
        IsPosixAbs(p) \/ IsDriveAbs(p)}

NoTrip == [none |-> TRUE]

URIInit ==
    /\ ServerInit
    /\ path \in AbsPaths
    /\ back = NoTrip
    /\ lintIn = NoRun
    /\ lintOut = NoRun

\* fromURI(toURI(path).String())
roundTrip ==
    /\ back = NoTrip
    /\ back' = [url |-> toURI(goos, path),
                uri |-> URLString(toURI(goos, path)),
                res |-> fromURI(URLString(toURI(goos, path)))]
    /\ UNCHANGED <<serverVars, path, lintIn, lintOut>>

URINext == roundTrip

SpecURI == URIInit /\ [][URINext]_vars

(***************************************************************************)
(* SpecLint: one lint run from start to end on a store that does not       *)
(* change meanwhile, for every document, configuration and command result  *)
(* of the sets below.                                                      *)
(***************************************************************************)
\* file:///w//a
UriDirty == <<"f", "i", "l", "e", ":", "/", "/", "/", "w", "/", "/", "a">>
\* file:///w/stdin
UriStdinDoc ==
    <<"f", "i", "l", "e", ":", "/", "/", "/", "w", "/", "s", "t", "d", "i", "n">>

\* the documents of a platform: named the platform's way
LintURIs(os) ==
    IF os = "windows" THEN {UriWinA, UriHttp}
    ELSE {UriA, UriDirty, UriStdinDoc, UriHttp}

AllLintURIs == {UriA, UriWinA, UriDirty, UriStdinDoc, UriHttp}

\* a:10:unexpected token
LineA10 == [kind |-> "flm", f |-> NameA, l |-> 10, c |-> 0, m |-> "unexpected token"]
\* stdin:3:4:bad
LineStdin34 == [kind |-> "flcm", f |-> NameStdin, l |-> 3, c |-> 4, m |-> "bad"]
\* -:1:dash
LineDash == [kind |-> "flm", f |-> <<"-">>, l |-> 1, c |-> 0, m |-> "dash"]
\* /w/a:2:1:abs
LineAbs == [kind |-> "flcm", f |-> <<"/", "w", "/", "a">>, l |-> 2, c |-> 1, m |-> "abs"]

OutLines == {LineA10, LineStdin34, LineDash, LineB, LineAbs, LineText}

Outputs == UNION {[1..n -> OutLines] : n \in 0..MaxOutLines}

FormatLists == {<<>>, <<PatFLM, PatFLCM>>, <<PatFLCM, PatFLM>>, <<PatMalformed>>}

LintConfigs ==
    [LintErrorFormats : FormatLists, LintStdin : BOOLEAN,
     LintOffset : 0..MaxOffset, LintCommand : {"lint"}]

\* the document: open with the configured language "L", open with a
\* language that has no configuration, or not in the store
DocStates == {"L", "txt", "absent"}

LintInputs ==
    {in \in [os : Platforms, uri : AllLintURIs, doc : DocStates,
              config : LintConfigs, res : [exit : {0, 1}, out : Outputs]] :
        in.uri \in LintURIs(in.os)}

\* the store and the configurations of an input
InFiles(in) == [u \in AllLintURIs |-> IF u = in.uri /\ in.doc # "absent" THEN 1 ELSE 0]
InHeap(in) == [o \in ObjIds |-> IF o = 1 THEN [LanguageId |-> in.doc, Text |-> "t1"] ELSE FreeObj]
InConfigs(in) == [l \in {"L"} |-> in.config]

\* the command's result for an input: an empty command line prints nothing
\* and exits 0
InResult(in) ==
    IF configFor(InConfigs(in), InFiles(in), InHeap(in), in.uri).LintCommand = ""
    THEN [exit |-> 0, out |-> <<>>]
    ELSE in.res

LintInit ==
    /\ ServerInit
    /\ path = <<>>
    /\ back = NoTrip
    /\ lintIn \in LintInputs
    /\ lintOut = NoRun

lintRun ==
    /\ lintOut = NoRun
    /\ lintOut' = lint(lintIn.os, NewHandler(InConfigs(lintIn)), InFiles(lintIn),
                       InHeap(lintIn), lintIn.uri, InResult(lintIn))
    /\ UNCHANGED <<serverVars, path, back, lintIn>>

LintNext == lintRun

SpecLint == LintInit /\ [][LintNext]_vars

(***************************************************************************)
(* The claims about the server (Spec).                                     *)
(***************************************************************************)
\* the linter is between a receive and the end of the Notify that follows
LinterBusy == wpc \in {"lookup", "prepare", "running", "notify"}

\* C1: at most one lint run is in flight: a run begun and not yet published
\* is the one the linter is busy with, and the linter begins no other until
\* it is back at its receive.
C1_SingleFlight ==
    /\ inflight <= 1
    /\ inflight = 1 <=> LinterBusy

\* a command is running while a producer waits to hand over the next request
C1_Witness ==
    /\ wpc = "running"
    /\ inflight = 1
    /\ sendq # <<>>

\* C2: the queue neither drops, merges nor reorders: the requests are
\* received in the order their sends began (ticket i is the i-th received),
\* every request not yet received is still waiting, the notifications go
\* out in that same order for the same URIs, and a run's notification is
\* out before the next request is received.
C2_Fifo ==
    /\ Len(acceptLog) + Len(buf) + Len(sendq) = Len(enqLog)
    /\ \A i \in 1..Len(acceptLog) :
          acceptLog[i].ticket = i /\ acceptLog[i].uri = enqLog[i].uri
    /\ \A i \in 1..Len(buf) : buf[i].ticket = Len(acceptLog) + i
    /\ \A i \in 1..Len(sendq) :
          /\ sendq[i].ticket = Len(acceptLog) + Len(buf) + i
          /\ sendq[i].uri = enqLog[sendq[i].ticket].uri
    /\ Len(pubLog) <= Len(acceptLog)
    /\ Len(acceptLog) <= Len(pubLog) + 1
    /\ \A i \in 1..Len(pubLog) :
          pubLog[i].ticket = i /\ pubLog[i].URI = enqLog[i].uri

\* two requests for one document, the second sent while the first was still
\* waiting to be received, have both been run to the end and published
C2_Witness ==
    /\ Len(pubLog) = 2
    /\ enqLog[1].uri = enqLog[2].uri
    /\ enqLog[2].ahead = 1
    /\ pubLog[1].end \in {"succeeded", "parsed"}
    /\ pubLog[2].end \in {"succeeded", "parsed"}

\* C3: the handoff is blocking and the channel holds nothing: as many
\* requests have been received as updateFile/saveFile calls have returned
\* nil, a handler is blocked exactly while its request waits in the senders'
\* queue, and no blocked handler gets on while the linter is busy.
C3_BlockingHandoff ==
    /\ [](/\ Len(acceptLog) = nReturned
          /\ buf = <<>>
          /\ \A h \in Handlers :
                hpc[h] = "blocked" <=> \E i \in 1..Len(sendq) : sendq[i].h = h)
    /\ [][\A h \in Handlers :
             hpc[h] = "blocked" /\ LinterBusy => hpc'[h] = "blocked"]_vars

\* one call has returned, its request is being linted, and another producer
\* is blocked behind it
C3_Witness ==
    /\ nReturned = 1
    /\ wpc = "running"
    /\ \E h \in Handlers : hpc[h] = "blocked"

\* C4: every received request leads to exactly one notification, for the
\* URI received and with what lint returned for it, whichever return lint
\* took: the notifications are as many as the requests received less the
\* one in progress, the i-th is for the i-th request, and the Notify step
\* appends lint's return value for the linter's URI.
C4_OnePublishPerRequest ==
    /\ [](/\ Len(acceptLog) = Len(pubLog) + (IF LinterBusy THEN 1 ELSE 0)
          /\ \A i \in 1..Len(pubLog) :
                /\ pubLog[i].URI = acceptLog[i].uri
                /\ pubLog[i].ticket = acceptLog[i].ticket
                /\ pubLog[i].nil => pubLog[i].Diagnostics = <<>>)
    /\ [][wpc = "notify" /\ wpc' # "notify" =>
             /\ Len(pubLog') = Len(pubLog) + 1
             /\ pubLog'[Len(pubLog')].URI = wuri
             /\ pubLog'[Len(pubLog')].Diagnostics = wret.diagnostics
             /\ pubLog'[Len(pubLog')].end = wret.end]_vars

\* two runs that ended early (a pattern list that does not compile, a
\* document that is not in the store) were each published
C4_Witness ==
    /\ Len(pubLog) = 2
    /\ \E i, j \in 1..2 :
          /\ pubLog[i].end = "errorformat"
          /\ pubLog[j].end = "document not found"
          /\ pubLog[i].nil /\ pubLog[j].nil

\* C7: updateFile on an absent id returns the document-not-found error for
\* it, changes nothing in the store and sends nothing; on a present id it
\* replaces that entry's text (the language id and the other entries stay)
\* and goes on to send exactly one request for the id.
C7_Update ==
    [][\A h \in Handlers :
          \* the error return
          /\ (hpc[h] = "update" /\ hpc'[h] = "idle")
             \/ (hret'[h].err = "document not found" /\ hret'[h] # hret[h])
             => /\ hret'[h].err = "document not found"
                /\ files[hret'[h].uri] = 0
                /\ hpc[h] = "update" => hret'[h].uri = harg[h].uri
                /\ UNCHANGED <<files, heap, sendq, buf, enqLog>>
          \* the text is replaced
          /\ hpc[h] # "send" /\ hpc'[h] = "send"
             => /\ files[harg'[h].uri] # 0
                /\ hpc[h] = "update" => harg'[h] = harg[h]
                /\ heap' = [heap EXCEPT ![files[harg'[h].uri]].Text = harg'[h].text]
                /\ hret'[h] = NoError
                /\ UNCHANGED <<files, sendq, buf, enqLog>>
          \* the one send
          /\ hpc[h] = "send" /\ hpc'[h] # "send"
             => /\ Len(enqLog') = Len(enqLog) + 1
                /\ enqLog'[Len(enqLog')].uri = harg[h].uri
                /\ UNCHANGED <<files, heap>>
          /\ hpc[h] = "blocked"
             => hpc'[h] = "blocked" \/ (hpc'[h] = "idle" /\ enqLog' = enqLog)
      ]_vars

\* one update failed on an absent document, another replaced a document's
\* text and sent its request
C7_Witness ==
    /\ \E h \in Handlers : hret[h].err = "document not found"
    /\ \E u \in AllURIs : files[u] # 0 /\ heap[files[u]].Text \in Texts
    /\ Len(enqLog) = 1

\* the parts of the store the linter's next step reads: the map h.files
\* (lines 109 and 237) and the Text of the File it holds (line 140 under
\* lint-stdin, line 145 when the command exits 0)
LinterReads ==
    CASE wpc = "lookup" -> {<<"files">>}
      [] wpc = "prepare" ->
            {<<"files">>}
            \cup (IF configFor(HandlerConfigs, files, heap, wuri).LintStdin
                  THEN {<<"Text", wf>>} ELSE {})
      [] wpc = "running" ->
            IF \E res \in CmdResults(wrun.config, ServerResults) : res.exit = 0
            THEN {<<"Text", wf>>} ELSE {}
      [] OTHER -> {}

\* the parts of the store the next step of handler h writes: the Text of
\* the File updateFile found (line 211)
HandlerWrites(h) ==
    IF hpc[h] = "update" /\ files[harg[h].uri] # 0
    THEN {<<"Text", files[harg[h].uri]>>}
    ELSE {}

\* C15: no handler's write to the store and read of the linter's lint run
\* on the same part of the store are both about to happen: no lock orders
\* the steps of the goroutines, so two that are both next may overlap.
C15_ExclusiveStore ==
    \A h \in Handlers : HandlerWrites(h) \cap LinterReads = {}

\* the returns of lint that come before the command
PreCommandEnds == {"document not found", "uri", "errorformat"}

\* C16: a run whose document is not in the store at the lookup, whose URI
\* is no file URI or whose patterns do not compile goes straight to its
\* return without starting the command and returns nil; the handlers'
\* results are not touched by it; and its notification, with no
\* diagnostics, puts the linter back at its receive.
C16_PreCommandErrors ==
    /\ [](wret # NoReturn /\ wret.end \in PreCommandEnds
             => wpc = "notify" /\ wret.nil /\ wret.diagnostics = <<>>)
    /\ [][/\ wpc = "lookup" /\ wpc' # "lookup" /\ files[wuri] = 0
             => /\ wpc' = "notify"
                /\ wret' = NilReturn("document not found")
          /\ /\ wpc = "prepare" /\ wpc' # "prepare"
             /\ \/ fromURI(wuri).err
                \/ NewErrorformat(
                       configFor(HandlerConfigs, files, heap, wuri).LintErrorFormats).err
             => /\ wpc' = "notify"
                /\ wret' \in {NilReturn("uri"), NilReturn("errorformat")}
          /\ wpc \in {"lookup", "prepare"} /\ wpc' = "notify"
             => /\ wret'.end \in PreCommandEnds
                /\ wret'.diagnostics = <<>>
                /\ hret' = hret /\ hpc' = hpc /\ panicked' = panicked
          /\ wpc = "notify" /\ wpc' # "notify" /\ wret.end \in PreCommandEnds
             => /\ wpc' = "recv"
                /\ ~panicked'
                /\ pubLog' = Append(pubLog,
                                    [URI |-> wuri, Diagnostics |-> <<>>, nil |-> TRUE,
                                     end |-> wret.end,
                                     ticket |-> acceptLog[Len(acceptLog)].ticket,
                                     fed |-> FALSE, stdin |-> ""])
         ]_vars

\* a run ended on a URI that is no file URI or on patterns that do not
\* compile, it was published without diagnostics, and the linter has
\* received the next request
C16_Witness ==
    /\ Len(pubLog) >= 1
    /\ pubLog[1].end \in {"uri", "errorformat"}
    /\ pubLog[1].Diagnostics = <<>>
    /\ Len(acceptLog) = 2
    /\ \A h \in Handlers : hret[h] = NoError

\* the entry the store holds for a document: none, or its File
Entry(fs, hp, u) == IF fs[u] = 0 THEN [none |-> TRUE] ELSE hp[fs[u]]

\* C17: openFile leaves the id mapped to an entry with the given language
\* and the empty text whatever was there, changes no other entry and sends
\* nothing; two ids never share an entry and an id in the store has one;
\* and didOpen's updateFile, which follows openFile, finds the entry, sets
\* the supplied text and goes on to send exactly one request.
C17_Open ==
    /\ [](\A u, v \in AllURIs :
             files[u] # 0 =>
                /\ heap[files[u]] # FreeObj
                /\ files[u] = files[v] => u = v)
    /\ [][\A h \in Handlers :
             /\ \A u \in AllURIs, l \in Langs, t \in Texts :
                   openFile(h, u, l, t)
                   => /\ Entry(files', heap', u) = [LanguageId |-> l, Text |-> ""]
                      /\ \A v \in AllURIs \ {u} :
                            Entry(files', heap', v) = Entry(files, heap, v)
                      /\ UNCHANGED <<enqLog, sendq, buf, acceptLog>>
                      /\ hpc'[h] = "update"
                      /\ harg'[h] = [uri |-> u, text |-> t]
             /\ hpc[h] = "update" /\ hpc'[h] # "update"
                => /\ hpc'[h] = "send"
                   /\ hret'[h] = NoError
                   /\ harg'[h] = harg[h]
                   /\ Entry(files', heap', harg[h].uri).Text = harg[h].text
                   /\ enqLog' = enqLog
             /\ hpc[h] = "send" /\ hpc'[h] # "send"
                => /\ Len(enqLog') = Len(enqLog) + 1
                   /\ enqLog'[Len(enqLog')].uri = harg[h].uri
                   /\ hret'[h] = NoError
                   /\ hpc'[h] \in {"blocked", "idle"}
             /\ hpc[h] = "blocked" /\ hpc'[h] # "blocked"
                => /\ hpc'[h] = "idle"
                   /\ hret'[h] = NoError
                   /\ enqLog' = enqLog
         ]_vars

\* a document with text was opened again: its entry is empty and the call
\* is on its way to updateFile
C17_Witness ==
    /\ hpc[Dispatcher] = "update"
    /\ Entry(files, heap, harg[Dispatcher].uri).Text = ""
    /\ Len(enqLog) = 1
    /\ enqLog[1].uri = harg[Dispatcher].uri
    /\ Len(pubLog) = 1
    /\ pubLog[1].end \in {"succeeded", "parsed"}

Published(k) ==
    /\ Len(enqLog) >= k
    /\ \E i \in DOMAIN pubLog : pubLog[i].ticket = k /\ pubLog[i].URI = enqLog[k].uri

\* handler h is at its send on h.request, or blocked in it
AtEnqueue(h) == hpc[h] \in {"send", "blocked"}

\* C19: the goroutines being scheduled, if every command returns then every
\* updateFile/saveFile at its send returns nil and every request sent is
\* published for its URI; and as long as a command does not return no
\* request is received and no handler at its send returns.
C19_Progress ==
    /\ CommandReturns
       => /\ \A h \in Handlers :
                AtEnqueue(h) ~> (hpc[h] = "idle" /\ hret[h] = NoError)
          /\ \A k \in 1..MaxCalls : (Len(enqLog) >= k) ~> Published(k)
    /\ \A h \in Handlers :
          [](AtEnqueue(h) /\ [](wpc = "running") => [](AtEnqueue(h)))
    /\ \A n \in 0..MaxCalls :
          [](Len(acceptLog) = n /\ [](wpc = "running") => [](Len(acceptLog) = n))

\* a handler is blocked in its send while the command of an earlier request
\* is running
C19_Witness ==
    /\ hpc[Dispatcher] = "blocked"
    /\ wpc = "running"
    /\ Len(enqLog) = Len(pubLog) + 2

\* no call is in progress and the linter is at its receive
Quiescent ==
    /\ \A h \in Handlers : hpc[h] = "idle"
    /\ sendq = <<>>
    /\ buf = <<>>
    /\ wpc \in {"recv", "exited"}

\* the latest notification for uri
LastPub(uri) ==
    CHOOSE i \in DOMAIN pubLog :
        /\ pubLog[i].URI = uri
        /\ \A j \in DOMAIN pubLog : pubLog[j].URI = uri => j <= i

\* at rest, the latest notification for an open document is that of a run
\* that found it and, if it got as far as the command, gave the command the
\* text the document has now
FreshAtRest ==
    Quiescent
    => \A u \in AllURIs :
          files[u] # 0
          => /\ \E i \in DOMAIN pubLog : pubLog[i].URI = u
             /\ pubLog[LastPub(u)].end # "document not found"
             /\ pubLog[LastPub(u)].end \in {"succeeded", "parsed"}
                => /\ pubLog[LastPub(u)].fed
                   /\ pubLog[LastPub(u)].stdin = heap[files[u]].Text

\* lint, having got as far as r, sets the command up with the document's text
ReadsText(r) == ~r.early /\ r.config.LintStdin

\* C20: the text a run gives its command (line 140) is the text its
\* document had in the store when the run started (line 109), nothing
\* changing it in between; and at rest the latest notification for an open
\* document comes from the text the document has now.
C20_TextAtRunStart ==
    /\ []FreshAtRest
    /\ [][/\ wpc = "prepare" /\ wpc' = "prepare"
          /\ ReadsText(LintPrepare(goos, HandlerConfigs, files', heap', wuri, wf))
          => heap'[wf].Text = heap[wf].Text]_vars

(***************************************************************************)
(* The claims about one lint run (SpecLint).                               *)
(***************************************************************************)
\* the run's configuration, command result, document path and patterns
RunConfig ==
    configFor(NewHandler(InConfigs(lintIn)), InFiles(lintIn), InHeap(lintIn),
              lintIn.uri)
RunResult == InResult(lintIn)
RunName == DocPath(lintIn.os, lintIn.uri).fname
RunEfms == NewErrorformat(RunConfig.LintErrorFormats).Efms

\* the run is over and went past the command
RunDone == lintOut # NoRun /\ ~lintOut.nil

\* what pattern j finds in line i of the output
RunMatch(i, j) == Match(RunEfms[j], RunResult.out[i])

\* the pairs (line, pattern) of the output
RunPairs == (1..Len(RunResult.out)) \X (1..Len(RunEfms))

\* the match of pair pr became a diagnostic
Kept(pr) ==
    \E k \in 1..Len(lintOut.hits) :
        lintOut.hits[k].i = pr[1] /\ lintOut.hits[k].j = pr[2]

\* a path made absolute, slash-normalised and, on Windows, lower-cased
Normalized(p) ==
    LET a == ToSlash(lintIn.os, Abs(lintIn.os, p))
    IN  IF lintIn.os = "windows" THEN ToLower(a) ELSE a

\* the file a match stands for: the document's for a standard-input
\* placeholder under lint-stdin, the one it names otherwise
FileOf(m) ==
    IF RunConfig.LintStdin /\ m.F \in {NameStdin, <<"-">>}
    THEN fromURI(lintIn.uri).path
    ELSE m.F

\* C5: every diagnostic of a run comes from a match of a line of the output
\* whose file, normalised (absolute, slashes, lower case on Windows), equals
\* the document's path normalised the same way; and a match whose
\* normalised file differs from it yields no diagnostic.
C5_PathFilter ==
    RunDone =>
        /\ Len(lintOut.diagnostics) = Len(lintOut.hits)
        /\ \A k \in 1..Len(lintOut.hits) :
              /\ lintOut.diagnostics[k] = lintOut.hits[k].d
              /\ <<lintOut.hits[k].i, lintOut.hits[k].j>> \in RunPairs
              /\ lintOut.hits[k].m = RunMatch(lintOut.hits[k].i, lintOut.hits[k].j)
              /\ lintOut.hits[k].m.ok
              /\ Normalized(FileOf(lintOut.hits[k].m))
                 = Normalized(fromURI(lintIn.uri).path)
        /\ \A pr \in RunPairs :
              /\ RunMatch(pr[1], pr[2]).ok
              /\ Normalized(FileOf(RunMatch(pr[1], pr[2])))
                 # Normalized(fromURI(lintIn.uri).path)
              => ~Kept(pr)

\* the output names the document and another file, a pattern matches both
\* lines, and only the document's became a diagnostic
C5_Witness ==
    /\ RunDone
    /\ Len(lintOut.diagnostics) = 1
    /\ \E pr \in RunPairs :
          /\ RunResult.out[pr[1]] = LineB
          /\ RunMatch(pr[1], pr[2]).ok
          /\ ~Kept(pr)
    /\ \E pr \in RunPairs : RunResult.out[pr[1]] = LineA10 /\ Kept(pr)

\* C6: when the command exits with status 0 the run returns the empty list
\* of diagnostics whatever it printed; the output is parsed only after a
\* non-zero exit.
C6_ExitZero ==
    lintOut # NoRun =>
        /\ RunResult.exit = 0 =>
              /\ lintOut.diagnostics = <<>>
              /\ lintOut.hits = <<>>
              /\ ~lintOut.nil => lintOut.end = "succeeded"
        /\ lintOut.end = "parsed" => RunResult.exit # 0

\* the command exited 0 after printing a line a pattern matches and that
\* names the document
C6_Witness ==
    /\ RunDone
    /\ RunResult.exit = 0
    /\ lintOut.diagnostics = <<>>
    /\ \E pr \in RunPairs :
          /\ RunMatch(pr[1], pr[2]).ok
          /\ Normalized(FileOf(RunMatch(pr[1], pr[2]))) = RunName

\* C8: the diagnostic of a surviving match with line L and column C, under
\* the line offset k, starts and ends at line L - 1 - k, character C' - 1,
\* C' being 1 when C is 0 and C otherwise, has the match's message and
\* severity 1; line 10 without a column is (9, 0) at offset 0 and line 8 at
\* offset 1.
C8_Position ==
    RunDone =>
        \A k \in 1..Len(lintOut.hits) :
            LET m == RunMatch(lintOut.hits[k].i, lintOut.hits[k].j)
                d == lintOut.diagnostics[k]
                col == IF m.C = 0 THEN 1 ELSE m.C
            IN  /\ d.Range.Start
                   = [Line |-> m.L - 1 - RunConfig.LintOffset, Character |-> col - 1]
                /\ d.Range.End = d.Range.Start
                /\ d.Message = m.M
                /\ d.Severity = 1
                /\ m.L = 10 /\ m.C = 0 =>
                      /\ d.Range.Start.Character = 0
                      /\ RunConfig.LintOffset = 0 => d.Range.Start.Line = 9
                      /\ RunConfig.LintOffset = 1 => d.Range.Start.Line = 8

\* line 10 without a column under offset 1, and a match with a column
C8_Witness ==
    /\ RunDone
    /\ RunConfig.LintOffset = 1
    /\ \E k \in 1..Len(lintOut.hits) :
          /\ lintOut.hits[k].m.L = 10
          /\ lintOut.hits[k].m.C = 0
          /\ lintOut.diagnostics[k].Range.Start = [Line |-> 8, Character |-> 0]
    /\ \E k \in 1..Len(lintOut.hits) :
          /\ lintOut.hits[k].m.C = 4
          /\ lintOut.diagnostics[k].Range.Start.Character = 3

\* C9: under lint-stdin a match that names the placeholder "stdin" or "-"
\* becomes a diagnostic of the document; without lint-stdin the placeholder
\* is a relative file name like any other, kept exactly when it resolves to
\* the document's path.
C9_StdinPlaceholder ==
    RunDone /\ lintOut.end = "parsed" =>
        \A pr \in RunPairs :
            /\ RunMatch(pr[1], pr[2]).ok
            /\ RunMatch(pr[1], pr[2]).F \in {NameStdin, <<"-">>}
            => IF RunConfig.LintStdin THEN Kept(pr)
               ELSE Kept(pr) <=> Normalized(RunMatch(pr[1], pr[2]).F) = RunName

\* C11: each line of the output yields at most one diagnostic, that of the
\* first configured pattern that matches the line, and the diagnostics are
\* in the order of the lines.
C11_FirstPatternWins ==
    RunDone =>
        /\ \A k, l \in 1..Len(lintOut.hits) :
              lintOut.hits[k].i = lintOut.hits[l].i => k = l
        /\ \A k \in 1..Len(lintOut.hits) :
              \A j \in 1..(lintOut.hits[k].j - 1) :
                  ~RunMatch(lintOut.hits[k].i, j).ok
        /\ \A k, l \in 1..Len(lintOut.hits) :
              k < l => lintOut.hits[k].i <= lintOut.hits[l].i

\* C12: a language configured without error patterns carries the two
\* built-in ones once NewHandler has returned, and a run for a document of
\* that language parses the command's output with them.
C12_DefaultsApplied ==
    /\ lintOut # NoRun
    /\ lintIn.doc = "L"
    /\ lintIn.config.LintErrorFormats = <<>>
    => /\ NewHandler(InConfigs(lintIn))["L"].LintErrorFormats = DefaultErrorFormats
       /\ RunDone =>
             lintOut.diagnostics
             = LintOutput(lintIn.os,
                          [lintIn.config EXCEPT !.LintErrorFormats = DefaultErrorFormats],
                          RunName, DefaultErrorFormats, RunResult).diagnostics

\* the run went through cmd.CombinedOutput: it returned at line 146 or 184
CommandRan == lintOut # NoRun /\ lintOut.end \in {"succeeded", "parsed"}

\* C13: when the configuration found for the document has no command (the
\* empty configuration of an unregistered language included) the run
\* executes no process and returns no diagnostics.
C13_NoCommandSkips ==
    /\ lintOut # NoRun
    /\ lintIn.doc # "absent"
    /\ RunConfig.LintCommand = ""
    => /\ ~CommandRan
       /\ lintOut.diagnostics = <<>>

\* C14: every diagnostic is a point (start = end) whose line and character
\* are not negative, whatever the line offset, when the match's line is at
\* least 1.
C14_NonNegative ==
    RunDone =>
        \A k \in 1..Len(lintOut.hits) :
            /\ lintOut.diagnostics[k].Range.Start = lintOut.diagnostics[k].Range.End
            /\ lintOut.hits[k].m.L >= 1 =>
                  /\ lintOut.diagnostics[k].Range.Start.Line >= 0
                  /\ lintOut.diagnostics[k].Range.Start.Character >= 0

(***************************************************************************)
(* The claim about the conversion (SpecURI).                               *)
(***************************************************************************)
\* C10: fromURI(toURI(path)) is path for every absolute POSIX-style path
\* and every absolute drive path, the bare drive root included, and the
\* URI's path begins with "/" for a drive path. Paths written with
\* backslashes on Windows, which toURI turns into slashes, are left out.
C10_RoundTrip ==
    /\ back # NoTrip
    /\ ~(goos = "windows" /\ \E i \in 1..Len(path) : path[i] = "\\")
    => /\ ~back.res.err
       /\ back.res.path = path
       /\ IsDriveAbs(path) => back.url.Path # <<>> /\ back.url.Path[1] = "/"

====
